---- MODULE Spec2Model ----
(***************************************************************************)
(* A model of SciTextProcessor (modules/preprocessing.py): the entity      *)
(* resolver with its PubChem lookup and alarm-based timeout, the offset-   *)
(* tracking rewrite of normalize_chemical_entities, and the sentence-      *)
(* segmented tokenizer.  Texts and names are strings; Python slices are    *)
(* modelled with their clamping and negative-index rules.                  *)
(***************************************************************************)
EXTENDS Integers, Sequences, FiniteSets, TLC

(***************************************************************************)
(* Bounds of the model.                                                    *)
(***************************************************************************)
\* texts normalized in a session
MaxNormalized == 2
\* the largest search_attempts argument
MaxAttempts == 1
\* texts handed to one call of tokenize
MaxTokTexts == 1
\* sentences the sentence segmenter finds in a text
MaxSentences == 2
\* abstracts handed to the constructor
MaxTexts == 2
\* entity spans handed to extract_entity_tokens
MaxSpans == 2

(***************************************************************************)
(* Python values.                                                          *)
(***************************************************************************)
\* None where a string is expected (no name of the model equals it).
None == "<None>"
\* None where a PubChem cid is expected (cids are positive).
NoCid == 0

Min(a, b) == IF a < b THEN a ELSE b
Max(a, b) == IF a > b THEN a ELSE b

\* Python's resolution of a slice bound i against a string of length n.
SliceIndex(i, n) == IF i < 0 THEN Max(i + n, 0) ELSE Min(i, n)

\* text[a:b]
Slice(text, a, b) ==
    SubSeq(text, SliceIndex(a, Len(text)) + 1, SliceIndex(b, Len(text)))

\* text[a:]
SliceFrom(text, a) == SubSeq(text, SliceIndex(a, Len(text)) + 1, Len(text))

\* text[:b]
SliceTo(text, b) == SubSeq(text, 1, SliceIndex(b, Len(text)))

\* dict[k] = v
Put(d, k, v) == [x \in (DOMAIN d) \cup {k} |-> IF x = k THEN v ELSE d[x]]

\* The empty dict.
EmptyDict == [x \in {} |-> 0]

(***************************************************************************)
(* str.lower() over the letters that occur in the model's corpus.          *)
(***************************************************************************)
UpperLower ==
    [x \in {"A", "C", "E", "H", "N", "O", "U", "V"} |->
        CASE x = "A" -> "a" [] x = "C" -> "c" [] x = "E" -> "e" [] x = "H" -> "h"
          [] x = "N" -> "n" [] x = "O" -> "o" [] x = "U" -> "u" [] x = "V" -> "v"]

LowerChar(ch) == IF ch \in DOMAIN UpperLower THEN UpperLower[ch] ELSE ch

RECURSIVE Lower(_)
Lower(s) ==
    IF s = "" THEN "" ELSE LowerChar(SubSeq(s, 1, 1)) \o Lower(SubSeq(s, 2, Len(s)))

(***************************************************************************)
(* FORMULA_REGX: ^(El|[0-9])+$ over the element symbols that can be        *)
(* spelled with the letters of the model's corpus.                         *)
(***************************************************************************)
ELEMENTS == {"H", "C", "N", "O", "Co", "No", "Ho", "Ce", "Ne", "He"}
Digits == {"0", "1", "2", "3", "4", "5", "6", "7", "8", "9"}

RECURSIVE FormulaTail(_)
\* s is a possibly empty concatenation of element symbols and digits
FormulaTail(s) ==
    \/ s = ""
    \/ /\ Len(s) >= 1
       /\ SubSeq(s, 1, 1) \in ELEMENTS \cup Digits
       /\ FormulaTail(SubSeq(s, 2, Len(s)))
    \/ /\ Len(s) >= 2
       /\ SubSeq(s, 1, 2) \in ELEMENTS
       /\ FormulaTail(SubSeq(s, 3, Len(s)))

FORMULA_REGX(s) == s # "" /\ FormulaTail(s)

\* the name under which a mention is cached and looked up
MentionName(cem_text) == IF FORMULA_REGX(cem_text) THEN cem_text ELSE Lower(cem_text)

(***************************************************************************)
(* Inputs.  A document is a text together with what the chemical entity    *)
(* recognizer (doc.cems) returns for it: (text, start, end) mentions with  *)
(* text[start:end] equal to the mention text, pairwise disjoint.  The      *)
(* documents define no abbreviation and hold no "El(III)" valence mention, *)
(* so remove_abbreviations and the VALENCE_REGX branch leave them alone.   *)
(***************************************************************************)
Cem(t, s, e) == [text |-> t, start |-> s, end |-> e]

Corpus ==
    { [text |-> "Use CO. Add EtOH",
       cems |-> <<Cem("CO", 4, 6), Cem("EtOH", 12, 16)>>],
      [text |-> "EtOH on Cobalt; EtOH",
       cems |-> <<Cem("Cobalt", 8, 14), Cem("EtOH", 0, 4), Cem("EtOH", 16, 20)>>] }

RECURSIVE SeqsUpTo(_, _)
\* the lists of at most n elements of S
SeqsUpTo(S, n) ==
    IF n = 0 THEN {<<>>}
    ELSE LET shorter == SeqsUpTo(S, n - 1)
         IN  shorter \cup {Append(q, x) : q \in shorter, x \in S}

\* the lists of distinct elements of S
DistinctSeqs(S) ==
    {q \in SeqsUpTo(S, Cardinality(S)) : \A i, j \in 1..Len(q) : q[i] = q[j] => i = j}

\* what pcp.get_compounds(name, 'name') can return: no compound, or a list
\* whose first compound has a cid and an IUPAC name that may be None
Compound(cid, iupac) == [cid |-> cid, iupac_name |-> iupac]
\* the IUPAC name PubChem has for a name
IupacNames(name) ==
    CASE name = "etoh" -> "ethanol"
      [] name = "cobalt" -> "cobalt"
      [] name = "CO" -> "carbon monoxide"
      [] OTHER -> None
LookupResults(name) ==
    {<<>>} \cup {<<Compound(702, n)>> : n \in {IupacNames(name), None}}

(***************************************************************************)
(* State.                                                                  *)
(***************************************************************************)
VARIABLES
    clean_texts,          \* self.clean_texts
    dropped_idxs,         \* self.dropped_idxs
    entity_to_cid,        \* self.entity_to_cid: name -> <<cid, iupac name>>
    entity_to_synonyms,   \* self.entity_to_synonyms: iupac name -> list of names
    entity_counts,        \* self.entity_counts: name -> count
    normalized_texts,     \* self.normalized_texts
    entities_per_text,    \* self.entities_per_text: index -> list of records
    timedout_entities,    \* self.timedout_entities
    tokenized_texts,      \* self.tokenized_texts
    entity_idxs,          \* self.entity_idxs
    checkpoint,           \* the files of the last save, <<>> before the first
    pc,                   \* position in normalize_chemical_entities
    alarm,                \* TRUE while a SIGALRM is pending
    args,                 \* arguments of the running call
    loc,                  \* locals of the running call
    hist                  \* history: what has happened in the session

vars == <<clean_texts, dropped_idxs,
          entity_to_cid, entity_to_synonyms, entity_counts, normalized_texts,
          entities_per_text, timedout_entities, tokenized_texts, entity_idxs,
          checkpoint, pc, alarm, args, loc, hist>>

cleanVars == <<clean_texts, dropped_idxs>>
resolverVars == <<entity_to_cid, entity_to_synonyms, entity_counts>>
tokenVars == <<tokenized_texts, entity_idxs>>

NoArgs ==
    [texts |-> <<>>, write_bold |-> FALSE, search_attempts |-> 0,
     save |-> FALSE, save_freq |-> 1]

NoLocals ==
    [start_idx |-> 0, i |-> 0, text |-> "", cems |-> <<>>, entity_list |-> <<>>,
     name |-> "", attempt |-> 0, c |-> <<>>, index_change |-> 0, k |-> 1]

NoHistory ==
    [called |-> FALSE,         \* normalize_chemical_entities has been called
     mentions |-> EmptyDict,   \* count key -> mentions resolved to it
     searches |-> EmptyDict,   \* name -> search_pubchem calls made for it
     attempts |-> 0,           \* lookup attempts of the current search
     result |-> <<>>,          \* what the last completed lookup returned
     last |-> "none",          \* the last thing that happened
     plain |-> {},             \* the texts normalized with write_bold off
     kept |-> <<>>]            \* the last tokenize: flags, and per text the
                               \* sentences with the spans kept for each

\* lines 39-40, 111-112, 134-140: the processor as the constructor leaves it
\* when it is given no texts
Constructed ==
    /\ clean_texts = <<>>
    /\ dropped_idxs = <<>>
    /\ entity_to_cid = EmptyDict
    /\ entity_to_synonyms = EmptyDict
    /\ entity_counts = EmptyDict
    /\ normalized_texts = <<>>
    /\ entities_per_text = EmptyDict
    /\ timedout_entities = <<>>
    /\ tokenized_texts = EmptyDict
    /\ entity_idxs = EmptyDict
    /\ checkpoint = <<>>
    /\ pc = "idle"
    /\ alarm = FALSE
    /\ loc = NoLocals
    /\ hist = NoHistory

Init == Constructed /\ args = NoArgs

\* d.get(k, 0)
Get0(d, k) == IF k \in DOMAIN d THEN d[k] ELSE 0

\* d[k] += 1 on a history counter
Bump(d, k) == Put(d, k, Get0(d, k) + 1)

(***************************************************************************)
(* normalize_chemical_entities, lines 309-333: the hardcoded entries and   *)
(* the initial counts.                                                     *)
(***************************************************************************)
HardcodedCids ==
    [x \in {"CO", "Co", "NO", "No", "sugar", "chloro", "alcohol"} |->
        CASE x = "CO" -> <<281, "carbon monoxide">>
          [] x = "Co" -> <<104730, "cobalt">>
          [] x = "NO" -> <<145068, "nitric oxide">>
          [] x = "No" -> <<24822, "nobelium">>
          [] OTHER -> <<NoCid, None>>]

HardcodedSynonyms ==
    [x \in {"carbon monoxide", "cobalt", "nitric oxide", "nobelium"} |->
        CASE x = "carbon monoxide" -> <<"CO">>
          [] x = "cobalt" -> <<"Co">>
          [] x = "nitric oxide" -> <<"NO">>
          [] x = "nobelium" -> <<"No">>]

\* dict d after d[k] = other[k] for every key of other
Overlay(d, other) ==
    [x \in (DOMAIN d) \cup (DOMAIN other) |->
        IF x \in DOMAIN other THEN other[x] ELSE d[x]]

\* the key under which a cached name is counted
CountKey(cids, name) == IF cids[name][2] = None THEN name ELSE cids[name][2]

\* the call without the hardcoded entries
SeedCids_Skipped(cids) == cids

SeedCids(cids) == Overlay(cids, HardcodedCids)

SeedSynonyms(syns) == Overlay(syns, HardcodedSynonyms)

\* lines 328-332
SeedCounts(counts, cids) ==
    LET keys == {CountKey(cids, k) : k \in DOMAIN cids}
    IN  [x \in (DOMAIN counts) \cup keys |-> IF x \in keys THEN 1 ELSE counts[x]]

\* the arguments of a call: texts are distinct documents, and save_freq is
\* varied only where it is read to an effect, with save on
NormalizeArgs ==
    {a \in [texts : DistinctSeqs(Corpus), write_bold : BOOLEAN,
            search_attempts : 0..MaxAttempts, save : BOOLEAN, save_freq : {1, 2}] :
        a.save \/ a.save_freq = 1}

StartIdx_Zero(texts) == 0

\* line 333: start_idx = len(self.normalized_texts)
StartIdx(texts) == Len(texts)

\* lines 309-334: the call up to the head of the loop over the texts
NormalizeCall ==
    /\ pc = "idle"
    /\ \E a \in NormalizeArgs :
        /\ Len(normalized_texts) + Len(a.texts) <= MaxNormalized
        /\ IF a.texts = <<>>
           THEN pc' = "idle" /\ args' = NoArgs /\ loc' = NoLocals
           ELSE /\ pc' = "text"
                /\ args' = a
                /\ loc' = [NoLocals EXCEPT !.start_idx = StartIdx(normalized_texts),
                                           !.i = StartIdx(normalized_texts)]
    /\ timedout_entities' = <<>>
    /\ entity_to_cid' = SeedCids(entity_to_cid)
    /\ entity_to_synonyms' = SeedSynonyms(entity_to_synonyms)
    /\ entity_counts' = SeedCounts(entity_counts, entity_to_cid')
    /\ hist' = [hist EXCEPT !.called = TRUE]
    /\ UNCHANGED <<cleanVars, normalized_texts, entities_per_text, tokenVars, checkpoint, alarm>>

\* lines 335-348: the next text and its mentions
BeginText ==
    /\ pc = "text"
    /\ LET doc == args.texts[loc.i - loc.start_idx + 1]
       IN  loc' = [loc EXCEPT !.text = doc.text, !.cems = doc.cems,
                              !.entity_list = <<>>]
    /\ pc' = "cem"
    /\ UNCHANGED <<cleanVars, resolverVars, normalized_texts, entities_per_text,
                   timedout_entities, tokenVars, checkpoint, alarm, args, hist>>

(***************************************************************************)
(* The loop over the mentions of a text, lines 349-392.                    *)
(***************************************************************************)
\* only names that resolved to an IUPAC name count as cached
IsCached_ResolvedOnly(cids, name) == name \in DOMAIN cids /\ cids[name][2] # None

\* line 368: the name has an entry in the cache
IsCached(cids, name) == name \in DOMAIN cids

\* the count set as for a new name instead
Incremented_Reset(counts, key) == [counts EXCEPT ![key] = 1]

\* lines 389-392: the count of a cached name goes up by one
Incremented(counts, key) == [counts EXCEPT ![key] = @ + 1]

\* lines 349-368 and 388-392: one mention, up to the PubChem search if its
\* name is not cached, to the end of the iteration if it is
ResolveMention ==
    /\ pc = "cem"
    /\ loc.cems # <<>>
    /\ LET cem == Head(loc.cems)
           name == MentionName(cem.text)
           entity_list == Append(loc.entity_list, <<name, cem.start, cem.end>>)
       IN  IF ~IsCached(entity_to_cid, name)
           THEN /\ pc' = "search"
                /\ loc' = [loc EXCEPT !.cems = Tail(@), !.entity_list = entity_list,
                                      !.name = name, !.attempt = 0, !.c = <<>>]
                /\ hist' = [hist EXCEPT !.searches = Bump(@, name), !.attempts = 0,
                                        !.last = "search"]
                /\ UNCHANGED entity_counts
           ELSE /\ pc' = "cem"
                /\ loc' = [loc EXCEPT !.cems = Tail(@), !.entity_list = entity_list,
                                      !.name = name]
                /\ entity_counts' =
                       Incremented(entity_counts, CountKey(entity_to_cid, name))
                /\ hist' = [hist EXCEPT
                                !.mentions = Bump(@, CountKey(entity_to_cid, name)),
                                !.last = "cached"]
    /\ UNCHANGED <<cleanVars, entity_to_cid, entity_to_synonyms, normalized_texts,
                   entities_per_text, timedout_entities, tokenVars, checkpoint,
                   alarm, args>>

(***************************************************************************)
(* search_pubchem, lines 461-471.  signal.alarm(10) arms the alarm inside  *)
(* the try block; an alarm that fires there is caught and the loop goes    *)
(* on.  A lookup that returns leaves the alarm armed: it is disarmed by    *)
(* the caller, at line 370.                                                *)
(***************************************************************************)
\* a loop over range(attempts + 1)
Exhausted_OneMore(attempt, attempts) == attempt > attempts

\* line 461: the loop over range(attempts) has run out
Exhausted(attempt, attempts) == attempt >= attempts

\* lines 461-467: one attempt, which returns a result or times out
SearchAttempt ==
    /\ pc = "search"
    /\ ~Exhausted(loc.attempt, args.search_attempts)
    /\ \/ \E r \in LookupResults(loc.name) :
            /\ loc' = [loc EXCEPT !.c = r]
            /\ pc' = "returned"
            /\ alarm' = TRUE
            /\ hist' = [hist EXCEPT !.attempts = @ + 1, !.last = "completed",
                                    !.result = r]
       \/ /\ loc' = [loc EXCEPT !.attempt = @ + 1]
          /\ pc' = "search"
          /\ alarm' = FALSE
          /\ hist' = [hist EXCEPT !.attempts = @ + 1, !.last = "timeout"]
    /\ UNCHANGED <<cleanVars, resolverVars, normalized_texts, entities_per_text,
                   timedout_entities, tokenVars, checkpoint, args>>

\* lines 468-471: every attempt timed out
SearchExhausted ==
    /\ pc = "search"
    /\ Exhausted(loc.attempt, args.search_attempts)
    /\ loc' = [loc EXCEPT !.c = <<>>]
    /\ timedout_entities' = Append(timedout_entities, loc.name)
    /\ pc' = "returned"
    /\ hist' = [hist EXCEPT !.last = "exhausted"]
    /\ UNCHANGED <<cleanVars, resolverVars, normalized_texts, entities_per_text, tokenVars,
                   checkpoint, alarm, args>>

\* the alarm armed at line 463 fires after search_pubchem has returned and
\* before line 370 disarms it: timeout_handler raises TimeoutException in
\* normalize_chemical_entities, where nothing catches it
AlarmFires ==
    /\ pc = "returned"
    /\ alarm
    /\ alarm' = FALSE
    /\ pc' = "raised"
    /\ UNCHANGED <<cleanVars, resolverVars, normalized_texts, entities_per_text,
                   timedout_entities, tokenVars, checkpoint, args, loc, hist>>

\* entity_to_synonyms after lines 380-383
AddSynonym(syns, iupac_name, name) ==
    IF iupac_name \notin DOMAIN syns
    THEN Put(syns, iupac_name, <<name>>)
    ELSE [syns EXCEPT ![iupac_name] = Append(@, name)]

\* lines 370-387: the alarm is disarmed and the result is cached
CacheResult ==
    /\ pc = "returned"
    /\ alarm' = FALSE
    /\ LET name == loc.name
           c == loc.c
       IN  IF Len(c) = 0
           THEN /\ entity_to_cid' = Put(entity_to_cid, name, <<NoCid, None>>)
                /\ entity_counts' = Put(entity_counts, name, 1)
                /\ UNCHANGED entity_to_synonyms
           ELSE IF c[1].iupac_name # None
           THEN /\ entity_to_cid' = Put(entity_to_cid, name, <<c[1].cid, c[1].iupac_name>>)
                /\ entity_to_synonyms' =
                       AddSynonym(entity_to_synonyms, c[1].iupac_name, name)
                /\ entity_counts' = Put(entity_counts, entity_to_cid'[name][2], 1)
           ELSE /\ entity_to_cid' = Put(entity_to_cid, name, <<c[1].cid, None>>)
                /\ entity_counts' = Put(entity_counts, name, 1)
                /\ UNCHANGED entity_to_synonyms
    /\ hist' = [hist EXCEPT
                    !.mentions = Bump(@, CountKey(entity_to_cid', loc.name)),
                    !.attempts = 0,
                    !.result = <<>>,
                    !.last = IF hist.last = "exhausted" THEN "timedout" ELSE "lookup"]
    /\ pc' = "cem"
    /\ UNCHANGED <<cleanVars, normalized_texts, entities_per_text, timedout_entities,
                   tokenVars, checkpoint, args, loc>>

(***************************************************************************)
(* The rewrite of the text, lines 394-416.                                 *)
(***************************************************************************)
RECURSIVE InsertByStart(_, _)
\* entity e put into the sorted list after every entity that starts no later
InsertByStart(sorted, e) ==
    IF sorted = <<>> THEN <<e>>
    ELSE IF Head(sorted)[2] <= e[2]
         THEN <<Head(sorted)>> \o InsertByStart(Tail(sorted), e)
         ELSE <<e>> \o sorted

RECURSIVE SortByStart(_)
\* entity_list.sort(key=lambda x:x[1]), a stable sort
SortByStart(list) ==
    IF list = <<>> THEN <<>>
    ELSE InsertByStart(SortByStart(SubSeq(list, 1, Len(list) - 1)), list[Len(list)])

\* lines 400-403
ReplacementName(cids, name) == IF cids[name][2] # None THEN cids[name][2] ELSE name

\* the escape sequences of line 406, "~" standing for the ESC character
BoldOn == "~[1m"
BoldOff == "~[0m"

\* the length of the span taken for the length of the name it held
ReplacementDelta_NameLength(replacement_name, start, stop, write_bold) ==
    IF write_bold
    THEN Len(replacement_name) - (stop - start) + 8
    ELSE Len(replacement_name) - (stop - start) + 1

\* lines 405 and 408
ReplacementDelta(replacement_name, start, stop, write_bold) ==
    IF write_bold
    THEN Len(replacement_name) - (stop - start) + 8
    ELSE Len(replacement_name) - (stop - start)

\* lines 406 and 409
Splice(text, start, stop, index_change, replacement_name, write_bold) ==
    IF write_bold
    THEN SliceTo(text, start + index_change) \o BoldOn \o replacement_name
             \o BoldOff \o SliceFrom(text, stop + index_change)
    ELSE SliceTo(text, start + index_change) \o replacement_name
             \o SliceFrom(text, stop + index_change)

\* line 411
EntityRecord(replacement_name, start, stop, index_change, replacement_delta, name) ==
    <<replacement_name, start + index_change - replacement_delta,
      stop + index_change, name>>

\* lines 394-397: the mentions are sorted and the rewrite starts
SortEntities ==
    /\ pc = "cem"
    /\ loc.cems = <<>>
    /\ loc' = [loc EXCEPT !.entity_list = SortByStart(@), !.index_change = 0,
                          !.k = 1]
    /\ entities_per_text' = Put(entities_per_text, loc.i, <<>>)
    /\ pc' = "splice"
    /\ hist' = [hist EXCEPT !.last = "sorted"]
    /\ UNCHANGED <<cleanVars, resolverVars, normalized_texts, timedout_entities, tokenVars,
                   checkpoint, alarm, args>>

\* lines 398-411: one replacement
SpliceEntity ==
    /\ pc = "splice"
    /\ loc.k <= Len(loc.entity_list)
    /\ LET name == loc.entity_list[loc.k][1]
           start == loc.entity_list[loc.k][2]
           stop == loc.entity_list[loc.k][3]
           replacement_name == ReplacementName(entity_to_cid, name)
           replacement_delta ==
               ReplacementDelta(replacement_name, start, stop, args.write_bold)
           index_change == loc.index_change + replacement_delta
       IN  /\ loc' = [loc EXCEPT
                          !.text = Splice(@, start, stop, loc.index_change,
                                          replacement_name, args.write_bold),
                          !.index_change = index_change,
                          !.k = @ + 1]
           /\ entities_per_text' =
                  [entities_per_text EXCEPT ![loc.i] =
                      Append(@, EntityRecord(replacement_name, start, stop,
                                             index_change, replacement_delta, name))]
    /\ pc' = "splice"
    /\ UNCHANGED <<cleanVars, resolverVars, normalized_texts, timedout_entities, tokenVars,
                   checkpoint, alarm, args, hist>>

(***************************************************************************)
(* The end of a text, lines 416-444.                                       *)
(***************************************************************************)
\* the elements of a list
Range(list) == {list[j] : j \in 1..Len(list)}

\* the lists that hold every element of S once: list(set(...)) in some order
Orders(S) ==
    {q \in [1..Cardinality(S) -> S] : Range(q) = S}

\* the save is due after the last text of the call only
SaveDue_LastOnly(i, save_freq, ntexts, start_idx) == i = ntexts + start_idx - 1

\* line 419
SaveDue(i, save_freq, ntexts, start_idx) ==
    (i + 1) % save_freq = 0 \/ i = ntexts + start_idx - 1

\* lines 426-427: what the synonym lists can be after the save
Deduplicated(syns) ==
    {d \in [DOMAIN syns -> UNION {Orders(Range(syns[k])) : k \in DOMAIN syns}] :
        \A k \in DOMAIN syns : d[k] \in Orders(Range(syns[k]))}

\* lines 416-444: the text is stored and, when due, the state is saved
FinishText ==
    /\ pc = "splice"
    /\ loc.k > Len(loc.entity_list)
    /\ normalized_texts' = Append(normalized_texts, loc.text)
    /\ IF SaveDue(loc.i, args.save_freq, Len(args.texts), loc.start_idx) /\ args.save
       THEN /\ entity_to_synonyms' \in Deduplicated(entity_to_synonyms)
            /\ checkpoint' =
                   <<[normalized_texts |-> normalized_texts',
                      entity_to_cid |-> entity_to_cid,
                      entity_to_synonyms |-> entity_to_synonyms',
                      entities_per_text |-> entities_per_text,
                      entity_counts |-> entity_counts]>>
       ELSE UNCHANGED <<entity_to_synonyms, checkpoint>>
    /\ IF loc.i + 1 < Len(args.texts) + loc.start_idx
       THEN pc' = "text" /\ loc' = [loc EXCEPT !.i = @ + 1] /\ UNCHANGED args
       ELSE pc' = "idle" /\ loc' = NoLocals /\ args' = NoArgs
    /\ hist' = [hist EXCEPT !.last = "text",
                            !.plain = IF args.write_bold THEN @ ELSE @ \cup {loc.i}]
    /\ UNCHANGED <<cleanVars, entity_to_cid, entity_counts, entities_per_text,
                   timedout_entities, tokenVars, alarm>>

Next ==
    \/ NormalizeCall
    \/ BeginText
    \/ ResolveMention
    \/ SearchAttempt
    \/ SearchExhausted
    \/ AlarmFires
    \/ CacheResult
    \/ SortEntities
    \/ SpliceEntity
    \/ FinishText

Spec == Init /\ [][Next]_vars

(***************************************************************************)
(* The tokenizer, lines 574-754.                                           *)
(***************************************************************************)
\* an item of the list extract_entity_tokens returns: a string of plain text
\* or, for an entity, a list holding the text of its span
Plain(t) == [entity |-> FALSE, text |-> t]
Entity(t) == [entity |-> TRUE, text |-> t]

RECURSIVE ExtractFrom(_, _, _, _)
\* lines 695-704, from the j-th span on
ExtractFrom(text, entity_spans, j, prev_start) ==
    IF j > Len(entity_spans) THEN <<>>
    ELSE LET start == entity_spans[j][1]
             stop == entity_spans[j][2]
             text_add == Slice(text, prev_start, start)
         IN  (IF text_add # "" THEN <<Plain(text_add)>> ELSE <<>>)
             \o <<Entity(Slice(text, start, stop))>>
             \o (IF j = Len(entity_spans) THEN <<Plain(SliceFrom(text, stop))>> ELSE <<>>)
             \o ExtractFrom(text, entity_spans, j + 1, stop)

\* the text after the last span is left out
extract_entity_tokens_TailDropped(text, entity_spans) ==
    IF Len(entity_spans) > 0
    THEN LET runs == ExtractFrom(text, entity_spans, 1, 0)
         IN  SubSeq(runs, 1, Len(runs) - 1)
    ELSE <<Plain(text)>>

\* lines 692-707
extract_entity_tokens(text, entity_spans) ==
    IF Len(entity_spans) > 0
    THEN ExtractFrom(text, entity_spans, 1, 0)
    ELSE <<Plain(text)>>

\* the punctuation marks ChemWordTokenizer sets apart in the model's texts
Punctuation == {".", ",", ";"}

RECURSIVE WordsFrom(_, _, _)
\* the words of text from position j on, word being the word read so far
WordsFrom(text, j, word) ==
    LET flush == IF word = "" THEN <<>> ELSE <<word>>
    IN  IF j > Len(text) THEN flush
        ELSE LET ch == SubSeq(text, j, j)
             IN  IF ch = " " THEN flush \o WordsFrom(text, j + 1, "")
                 ELSE IF ch \in Punctuation
                      THEN flush \o <<ch>> \o WordsFrom(text, j + 1, "")
                      ELSE WordsFrom(text, j + 1, word \o ch)

\* CWT.tokenize(item), line 727: words split at spaces, punctuation apart
WordTokenize(text) == WordsFrom(text, 1, "")

Letters ==
    {"a", "b", "c", "d", "e", "h", "i", "l", "m", "n", "o", "r", "s", "t", "u",
     "v", "x", "A", "C", "E", "H", "N", "O", "U", "V"}

RECURSIVE DigitPrefix(_)
\* the length of the longest prefix of digits
DigitPrefix(token) ==
    IF token # "" /\ SubSeq(token, 1, 1) \in Digits
    THEN 1 + DigitPrefix(SubSeq(token, 2, Len(token)))
    ELSE 0

\* the units of SPLIT_UNITS that can be spelled with the model's letters
SPLIT_UNITS == {"h", "V", "m", "N", "eV", "A", "at", "mol", "s"}

\* lines 749-754, for tokens without sign, decimal point or parenthesis
split_token(token) ==
    LET n == DigitPrefix(token)
        unit == SubSeq(token, n + 1, Len(token))
    IN  IF n > 0 /\ unit # "" /\ SubSeq(unit, 1, 1) \in Letters /\ unit \in SPLIT_UNITS
        THEN <<SubSeq(token, 1, n), unit>>
        ELSE <<token>>

RECURSIVE SplitAll(_)
\* lines 729-731
SplitAll(item_tokens) ==
    IF item_tokens = <<>> THEN <<>>
    ELSE split_token(Head(item_tokens)) \o SplitAll(Tail(item_tokens))

RECURSIVE ProcessFrom(_, _, _, _)
\* lines 725-736, from the j-th item on
ProcessFrom(token_list, j, tokens, idxs) ==
    IF j > Len(token_list) THEN [tokens |-> tokens, entity_idxs |-> idxs]
    ELSE LET item == token_list[j]
         IN  IF ~item.entity
             THEN ProcessFrom(token_list, j + 1,
                              tokens \o SplitAll(WordTokenize(item.text)), idxs)
             ELSE LET added == Append(tokens, item.text)
                      item_idx == Len(added) - 1
                  IN  ProcessFrom(token_list, j + 1, added,
                                  Append(idxs, <<item.text, item_idx>>))

\* lines 722-737
process_token_list(token_list) == ProcessFrom(token_list, 1, <<>>, <<>>)

IsNumber(token) == token # "" /\ DigitPrefix(token) = Len(token)

UpperCase == DOMAIN UpperLower

RECURSIVE AllLower(_)
AllLower(t) ==
    t = "" \/ (SubSeq(t, 1, 1) \in Letters \ UpperCase /\ AllLower(SubSeq(t, 2, Len(t))))

\* a word whose first letter only is upper case
IsTitle(token) ==
    /\ token # ""
    /\ SubSeq(token, 1, 1) \in UpperCase
    /\ AllLower(SubSeq(token, 2, Len(token)))

RECURSIVE MTPFrom(_, _, _)
MTPFrom(tokens, j, exclude_punct) ==
    IF j > Len(tokens) THEN <<>>
    ELSE LET tok == tokens[j]
         IN  (IF exclude_punct /\ tok \in Punctuation THEN <<>>
              ELSE IF IsNumber(tok) THEN <<"<nUm>">>
              ELSE IF IsTitle(tok) /\ tok \notin ELEMENTS \cup SPLIT_UNITS
                   THEN <<Lower(tok)>>
              ELSE <<tok>>)
             \o MTPFrom(tokens, j + 1, exclude_punct)

\* MTP.process(tokens, exclude_punct, normalize_materials=False,
\* split_oxidation=False), lines 627-630 and 655-658: punctuation is left
\* out on request, numbers become <nUm> and capitalized words lower case
MTPProcess(tokens, exclude_punct) == MTPFrom(tokens, 1, exclude_punct)

RECURSIVE ReplaceSpaces(_)
\* name.replace(' ', '_'), line 616
ReplaceSpaces(name) ==
    IF name = "" THEN ""
    ELSE (IF SubSeq(name, 1, 1) = " " THEN "_" ELSE SubSeq(name, 1, 1))
         \o ReplaceSpaces(SubSeq(name, 2, Len(name)))

RECURSIVE JoinEntities(_, _, _)
\* lines 611-617: the text with the names of the entities from the j-th on
\* written over their spans
JoinEntities(text, entry, j) ==
    IF j > Len(entry) THEN text
    ELSE LET start == entry[j][2]
             stop == entry[j][3]
             new_name == ReplaceSpaces(entry[j][1])
         IN  JoinEntities(SliceTo(text, start) \o new_name \o SliceFrom(text, stop),
                          entry, j + 1)

\* line 615, for every entity of the entry
EntitySpans(entry) == [j \in 1..Len(entry) |-> <<entry[j][2], entry[j][3]>>]

\* the spans that end at the end of the sentence are kept too
SentenceEntitiesFrom_EndIncluded(entity_spans, j, split, prior_split) ==
    LET kept == SelectSeq(SubSeq(entity_spans, j, Len(entity_spans)),
                          LAMBDA sp : sp[2] <= split /\ sp[1] >= prior_split)
    IN  [m \in 1..Len(kept) |-> <<kept[m][1] - split, kept[m][2] - split>>]

RECURSIVE SentenceEntitiesFrom(_, _, _, _)
\* lines 640-644, from the j-th span on
SentenceEntitiesFrom(entity_spans, j, split, prior_split) ==
    IF j > Len(entity_spans) THEN <<>>
    ELSE LET span == entity_spans[j]
         IN  (IF span[2] < split /\ span[1] >= prior_split
              THEN <<<<span[1] - split, span[2] - split>>>>
              ELSE <<>>)
             \o SentenceEntitiesFrom(entity_spans, j + 1, split, prior_split)

\* the spans kept, minus the end of the sentence before
sentence_entities_FromPrior(entity_spans, split, prior_split) ==
    LET kept == SelectSeq(entity_spans,
                          LAMBDA sp : sp[2] < split /\ sp[1] >= prior_split)
    IN  [m \in 1..Len(kept) |-> <<kept[m][1] - prior_split, kept[m][2] - prior_split>>]

\* lines 640-644
sentence_entities(entity_spans, split, prior_split) ==
    SentenceEntitiesFrom(entity_spans, 1, split, prior_split)

(***************************************************************************)
(* Paragraph(text).sentences: the sentence segmenter returns consecutive   *)
(* sentences <<start, end>> with sentence.text = text[start:end], that     *)
(* begin and end with a character other than a space and are separated by *)
(* spaces.                                                                 *)
(***************************************************************************)
IsSpace(text, pos) == SubSeq(text, pos + 1, pos + 1) = " "

\* the maximal runs <<a, b>> of spaces text[a:b] that have text on both sides
SpaceRuns(text) ==
    {r \in (1..Len(text)) \X (1..Len(text)) :
        /\ r[1] < r[2] /\ r[2] < Len(text)
        /\ \A pos \in r[1]..(r[2] - 1) : IsSpace(text, pos)
        /\ ~IsSpace(text, r[1] - 1)
        /\ ~IsSpace(text, r[2])}

RECURSIVE SentencesFrom(_, _, _)
\* the sentences from offset first on that the breaks leave, up to offset last
SentencesFrom(first, breaks, last) ==
    IF breaks = {} THEN <<<<first, last>>>>
    ELSE LET b == CHOOSE r \in breaks : \A q \in breaks : r[1] <= q[1]
         IN  <<<<first, b[1]>>>> \o SentencesFrom(b[2], breaks \ {b}, last)

Segmentations(text) ==
    LET inner == {pos \in 0..(Len(text) - 1) : ~IsSpace(text, pos)}
    IN  IF inner = {} THEN {<<>>}
        ELSE LET first == CHOOSE pos \in inner : \A q \in inner : pos <= q
                 last == CHOOSE pos \in inner : \A q \in inner : pos >= q
             IN  {SentencesFrom(first, breaks, last + 1) :
                     breaks \in {B \in SUBSET SpaceRuns(text) :
                                     Cardinality(B) < MaxSentences}}

RECURSIVE TokenizeSentences(_, _, _, _, _, _)
\* lines 637-659 from the j-th sentence on: per sentence, its tokens, its
\* entity indices and the spans kept for it
TokenizeSentences(text, entity_spans, sentences, j, prior_split, exclude_punct) ==
    IF j > Len(sentences) THEN <<>>
    ELSE LET split == sentences[j][2]
             sentence == Slice(text, sentences[j][1], sentences[j][2])
             spans == sentence_entities(entity_spans, split, prior_split)
             token_list == extract_entity_tokens(sentence, spans)
             processed == process_token_list(token_list)
         IN  <<[tokens |-> MTPProcess(processed.tokens, exclude_punct),
                entity_idxs |-> processed.entity_idxs,
                sentence |-> sentences[j],
                prior_split |-> prior_split,
                spans |-> spans]>>
             \o TokenizeSentences(text, entity_spans, sentences, j + 1, split,
                                  exclude_punct)

\* lines 607-660 for one text, given the sentences the segmenter finds in it
TokenizeText(text_in, entry, flags, sentences) ==
    LET text == IF flags.use_entities THEN JoinEntities(text_in, entry, 1) ELSE text_in
        entity_spans == IF flags.use_entities THEN EntitySpans(entry) ELSE <<>>
    IN  IF ~flags.keep_sentences
        THEN LET processed == process_token_list(extract_entity_tokens(text, entity_spans))
             IN  [tokens |-> MTPProcess(processed.tokens, flags.exclude_punct),
                  entity_idxs |-> processed.entity_idxs,
                  text |-> text, entity_spans |-> entity_spans, sentences |-> <<>>]
        ELSE LET per == TokenizeSentences(text, entity_spans, sentences, 1, 0,
                                          flags.exclude_punct)
             IN  [tokens |-> [j \in 1..Len(per) |-> per[j].tokens],
                  entity_idxs |-> [j \in 1..Len(per) |-> per[j].entity_idxs],
                  text |-> text, entity_spans |-> entity_spans, sentences |-> per]

\* the text of line 635, whose sentences the segmenter is asked for
SegmentedText(text_in, entry, flags) ==
    IF flags.use_entities THEN JoinEntities(text_in, entry, 1) ELSE text_in

(***************************************************************************)
(* The arguments tokenize is called with: texts and entity records as      *)
(* normalize_chemical_entities (write_bold off) leaves them for documents  *)
(* of the corpus, under the caches a session can end with.                 *)
(***************************************************************************)
RECURSIVE RewriteFrom(_, _, _, _, _, _)
\* lines 398-411 from the k-th entity on: the text and the records
RewriteFrom(text, entity_list, k, index_change, cids, records) ==
    IF k > Len(entity_list) THEN [text |-> text, records |-> records]
    ELSE LET name == entity_list[k][1]
             start == entity_list[k][2]
             stop == entity_list[k][3]
             replacement_name == ReplacementName(cids, name)
             replacement_delta == ReplacementDelta(replacement_name, start, stop, FALSE)
         IN  RewriteFrom(Splice(text, start, stop, index_change, replacement_name, FALSE),
                         entity_list, k + 1, index_change + replacement_delta, cids,
                         Append(records,
                                EntityRecord(replacement_name, start, stop,
                                             index_change + replacement_delta,
                                             replacement_delta, name)))

\* lines 349-365 and 394-416 for one document
NormalizedDoc(doc, cids) ==
    RewriteFrom(doc.text,
                SortByStart([j \in 1..Len(doc.cems) |->
                                <<MentionName(doc.cems[j].text), doc.cems[j].start,
                                  doc.cems[j].end>>]),
                1, 0, cids, <<>>)

\* the caches: the hardcoded entries and what the lookup found for the rest
Caches ==
    {Overlay(HardcodedCids,
             [x \in {"etoh", "cobalt"} |-> IF x = "etoh" THEN e ELSE c]) :
        e \in {<<NoCid, None>>, <<702, "ethanol">>},
        c \in {<<NoCid, None>>, <<702, "cobalt">>}}

\* the texts of the documents docs and the entities of the documents edocs
TokInput(docs, edocs, cids) ==
    [texts |-> [j \in 1..Len(docs) |-> NormalizedDoc(docs[j], cids).text],
     entities |-> [j \in 0..(Len(edocs) - 1) |-> NormalizedDoc(edocs[j + 1], cids).records]]

\* texts with their own entities, or with the entities of another number of
\* documents
TokInputs ==
    {TokInput(d[1], d[2], cids) :
        d \in {dd \in SeqsUpTo(Corpus, MaxTokTexts) \X SeqsUpTo(Corpus, MaxTokTexts) :
                  Len(dd[1]) = Len(dd[2]) => dd[1] = dd[2]},
        cids \in Caches}

TokFlags == [use_entities : BOOLEAN, keep_sentences : BOOLEAN, exclude_punct : BOOLEAN]

\* the arguments of a call of tokenize
TokArgs ==
    {[texts |-> input.texts, entities |-> input.entities, flags |-> flags] :
        input \in TokInputs, flags \in TokFlags}

\* what an earlier call tokenize(texts, entities, keep_sentences=False) on
\* one normalized document has left in tokenized_texts and entity_idxs
TokenizedEarlier ==
    LET doc == CHOOSE d \in Corpus : d.text = "Use CO. Add EtOH"
        cids == CHOOSE c \in Caches : c["etoh"][2] # None /\ c["cobalt"][2] = None
        input == TokInput(<<doc>>, <<doc>>, cids)
        run == TokenizeText(input.texts[1], input.entities[0],
                            [use_entities |-> TRUE, keep_sentences |-> FALSE,
                             exclude_punct |-> FALSE], <<>>)
    IN  [tokenized_texts |-> Put(EmptyDict, 0, run.tokens),
         entity_idxs |-> Put(EmptyDict, 0, run.entity_idxs)]

\* a processor that has tokenized nothing yet, or one text in an earlier
\* call, and the arguments tokenize is about to be called with
InitTok ==
    /\ clean_texts = <<>>
    /\ dropped_idxs = <<>>
    /\ entity_to_cid = EmptyDict
    /\ entity_to_synonyms = EmptyDict
    /\ entity_counts = EmptyDict
    /\ normalized_texts = <<>>
    /\ entities_per_text = EmptyDict
    /\ timedout_entities = <<>>
    /\ \/ tokenized_texts = EmptyDict /\ entity_idxs = EmptyDict
       \/ /\ tokenized_texts = TokenizedEarlier.tokenized_texts
          /\ entity_idxs = TokenizedEarlier.entity_idxs
    /\ checkpoint = <<>>
    /\ pc = "idle"
    /\ alarm = FALSE
    /\ args \in TokArgs
    /\ loc = NoLocals
    /\ hist = NoHistory

\* the check passes when there are entity records for at least the texts
CountsMatch_AtLeast(texts, entities) == Len(texts) <= Cardinality(DOMAIN entities)

\* line 600
CountsMatch(texts, entities) == Len(texts) = Cardinality(DOMAIN entities)

\* lines 595-660: a call of tokenize that passes the check of line 600
Tokenize ==
    /\ pc = "idle"
    /\ LET input == args
           flags == args.flags
       IN
        /\ flags.use_entities => CountsMatch(input.texts, input.entities)
        /\ \E segs \in [1..Len(input.texts) -> UNION {Segmentations(SegmentedText(
                            input.texts[j], IF flags.use_entities THEN input.entities[j - 1] ELSE <<>>,
                            flags)) : j \in 1..Len(input.texts)}] :
            /\ \A j \in 1..Len(input.texts) :
                  segs[j] \in Segmentations(SegmentedText(
                      input.texts[j], IF flags.use_entities THEN input.entities[j - 1] ELSE <<>>,
                      flags))
            /\ LET out == [i \in 0..(Len(input.texts) - 1) |->
                              TokenizeText(input.texts[i + 1],
                                           IF flags.use_entities THEN input.entities[i] ELSE <<>>,
                                           flags, segs[i + 1])]
               IN  /\ tokenized_texts' =
                          Overlay(tokenized_texts, [i \in DOMAIN out |-> out[i].tokens])
                   /\ entity_idxs' =
                          Overlay(entity_idxs, [i \in DOMAIN out |-> out[i].entity_idxs])
                   /\ hist' = [hist EXCEPT !.last = "tokenized",
                                           !.kept = <<flags, out>>]
    /\ pc' = "tokenized"
    /\ UNCHANGED <<cleanVars, resolverVars, normalized_texts, entities_per_text,
                   timedout_entities, checkpoint, alarm, args, loc>>

\* line 600: the assertion fails and AssertionError leaves tokenize
TokenizeAssertFails ==
    /\ pc = "idle"
    /\ args.flags.use_entities
    /\ ~CountsMatch(args.texts, args.entities)
    /\ pc' = "raised"
    /\ hist' = [hist EXCEPT !.last = "assert"]
    /\ UNCHANGED <<cleanVars, resolverVars, normalized_texts, entities_per_text,
                   timedout_entities, tokenVars, checkpoint, alarm, args, loc>>

NextTok ==
    \/ Tokenize
    \/ TokenizeAssertFails

SpecTok == InitTok /\ [][NextTok]_vars

(***************************************************************************)
(* Properties of normalize_chemical_entities, checked under Spec.          *)
(***************************************************************************)
RECURSIVE DriftAfter(_, _, _)
\* the sum of len(replacement) - (end - start) over the first n entities
DriftAfter(entity_list, n, cids) ==
    IF n = 0 THEN 0
    ELSE DriftAfter(entity_list, n - 1, cids)
         + Len(IF cids[entity_list[n][1]][2] # None
               THEN cids[entity_list[n][1]][2] ELSE entity_list[n][1])
         - (entity_list[n][3] - entity_list[n][2])

\* C1: with write_bold off, the k-th replacement of a text is spliced at
\* start + drift, drift being the sum of len(replacement) - (end - start)
\* over the k-1 earlier replacements, and every record (replacement_name, s,
\* e, surface) of entities_per_text satisfies text[s:e] = replacement_name,
\* in the text being rewritten and in the normalized text that is stored.
C1_DriftAndRecords ==
    /\ (pc = "splice" /\ ~args.write_bold) =>
          /\ loc.index_change = DriftAfter(loc.entity_list, loc.k - 1, entity_to_cid)
          /\ Len(entities_per_text[loc.i]) = loc.k - 1
          /\ \A j \in 1..(loc.k - 1) :
                LET rec == entities_per_text[loc.i][j]
                IN  /\ rec[2] = loc.entity_list[j][2]
                                + DriftAfter(loc.entity_list, j - 1, entity_to_cid)
                    /\ rec[4] = loc.entity_list[j][1]
                    /\ Slice(loc.text, rec[2], rec[3]) = rec[1]
    /\ \A i \in hist.plain :
          \A j \in 1..Len(entities_per_text[i]) :
             LET rec == entities_per_text[i][j]
             IN  Slice(normalized_texts[i + 1], rec[2], rec[3]) = rec[1]

\* a stored text whose second replacement was spliced after a first one that
\* changed the length of the text
C1_Witness ==
    \E i \in hist.plain :
        /\ Len(entities_per_text[i]) >= 2
        /\ Len(entities_per_text[i][1][1]) # Len(entities_per_text[i][1][4])
        /\ entities_per_text[i][2][1] # entities_per_text[i][2][4]

\* C2: for every key of the entity count table the count equals the number
\* of mentions processed so far that resolved to that key.
C2_CountsEqualMentions ==
    \A key \in DOMAIN entity_counts : entity_counts[key] = Get0(hist.mentions, key)

\* C3: every name once in the synonym list of a canonical name is in it
\* after any step.
C3_SynonymsMonotone ==
    [][\A key \in DOMAIN entity_to_synonyms :
          /\ key \in DOMAIN entity_to_synonyms'
          /\ Range(entity_to_synonyms[key]) \subseteq Range(entity_to_synonyms'[key])]_vars

\* C4: from the first call on "CO" is cached as carbon monoxide and stays
\* so, no hardcoded name is ever searched in PubChem, and every mention of
\* "CO" is replaced by "carbon monoxide".
C4_HardcodedCO ==
    /\ hist.called =>
          /\ "CO" \in DOMAIN entity_to_cid
          /\ entity_to_cid["CO"] = <<281, "carbon monoxide">>
    /\ \A name \in {"CO", "Co", "NO", "No", "sugar", "chloro", "alcohol"} :
          /\ Get0(hist.searches, name) = 0
          /\ pc \in {"search", "returned"} => loc.name # name
    /\ \A i \in DOMAIN entities_per_text :
          \A j \in 1..Len(entities_per_text[i]) :
             entities_per_text[i][j][4] = "CO"
                => entities_per_text[i][j][1] = "carbon monoxide"

\* a mention of "CO" has been replaced in a session that has searched
\* PubChem for another name
C4_Witness ==
    /\ DOMAIN hist.searches # {}
    /\ \E i \in DOMAIN entities_per_text :
          \E j \in 1..Len(entities_per_text[i]) : entities_per_text[i][j][4] = "CO"

\* C5: resolving a mention whose name is in the cache leaves entity_to_cid
\* and every synonym list as they are and raises exactly one count, that of
\* the canonical name or, without one, of the name itself, by exactly 1.
C5_CachedMention ==
    [][(/\ pc = "cem"
        /\ loc.cems # <<>>
        /\ MentionName(Head(loc.cems).text) \in DOMAIN entity_to_cid)
       => LET name == MentionName(Head(loc.cems).text)
              key == IF entity_to_cid[name][2] = None
                     THEN name ELSE entity_to_cid[name][2]
          IN  /\ entity_to_cid' = entity_to_cid
              /\ entity_to_synonyms' = entity_to_synonyms
              /\ DOMAIN entity_counts' = DOMAIN entity_counts
              /\ key \in DOMAIN entity_counts
              /\ \A k \in DOMAIN entity_counts :
                    entity_counts'[k] = entity_counts[k] + (IF k = key THEN 1 ELSE 0)]_vars

\* a name that PubChem was searched for has been resolved again from the
\* cache
C5_Witness ==
    /\ pc = "cem"
    /\ hist.last = "cached"
    /\ Get0(hist.searches, loc.name) = 1
    /\ entity_counts[CountKey(entity_to_cid, loc.name)] >= 2

\* C6: PubChem is searched for a name only while the name is absent from
\* the cache: a search in progress is for an uncached name, a name whose
\* resolution has ended is cached whatever the outcome, and no name is
\* searched twice in a session.
C6_SearchOnlyWhenAbsent ==
    /\ pc = "search" => loc.name \notin DOMAIN entity_to_cid
    /\ \A name \in DOMAIN hist.searches :
          /\ hist.searches[name] <= 1
          /\ \/ name \in DOMAIN entity_to_cid
             \/ pc \in {"search", "returned", "raised"} /\ loc.name = name

\* a name that was searched without finding a canonical name is mentioned
\* again and resolved from the cache
C6_Witness ==
    /\ pc = "cem"
    /\ hist.last = "cached"
    /\ Get0(hist.searches, loc.name) = 1
    /\ entity_to_cid[loc.name] = <<NoCid, None>>

\* the number of times name stands in the list
Occurrences(list, name) == Cardinality({j \in 1..Len(list) : list[j] = name})

C8_TimeoutNeverPropagates == pc # "raised"

\* C18: with save on, a checkpoint is written by the step that finishes a
\* text exactly when the number of texts normalized so far in the session
\* is a multiple of save_freq or the call returns after the text; with save
\* off none is written; a checkpoint is written only by the step that
\* stores a text, never during a resolution, and its list of normalized
\* texts is the list of all texts normalized so far.
C18_CheckpointCadence ==
    [][/\ checkpoint' # checkpoint
            <=> /\ normalized_texts' # normalized_texts
                /\ args.save
                /\ \/ Len(normalized_texts') % args.save_freq = 0
                   \/ pc' = "idle"
       /\ checkpoint' # checkpoint
            => /\ pc = "splice"
               /\ pc' \in {"text", "idle"}
               /\ checkpoint'[1].normalized_texts = normalized_texts'
               /\ normalized_texts' = Append(normalized_texts, loc.text)]_vars

\* a checkpoint with every text so far has been written after a text that
\* is not the last of its call
C18_Witness ==
    /\ pc = "text"
    /\ loc.i > loc.start_idx
    /\ args.save
    /\ checkpoint # <<>>
    /\ checkpoint[1].normalized_texts = normalized_texts

(***************************************************************************)
(* Properties of tokenize, checked under SpecTok.                          *)
(***************************************************************************)
\* the flags and the per-text results of the last sentence-segmented,
\* entity-aware call of tokenize
SentenceRun == hist.kept # <<>> /\ hist.kept[1].keep_sentences /\ hist.kept[1].use_entities

\* the spans of a text that lie within the sentence <<start, end>>
SpansWithin(entity_spans, sentence) ==
    SelectSeq(entity_spans, LAMBDA sp : sentence[1] <= sp[1] /\ sp[2] <= sentence[2])

C10_EntitiesPerSentence ==
    SentenceRun =>
        \A i \in DOMAIN hist.kept[2] :
            LET run == hist.kept[2][i]
            IN  \A j \in 1..Len(run.sentences) :
                   LET within == SpansWithin(run.entity_spans, run.sentences[j].sentence)
                   IN  /\ Len(entity_idxs[i][j]) = Len(within)
                       /\ \A m \in 1..Len(within) :
                             entity_idxs[i][j][m][1]
                                 = Slice(run.text, within[m][1], within[m][2])

\* every pair <<name, idx>> of the list points at a token of that name
PairsPointAt(pairs, tokens) ==
    \A m \in 1..Len(pairs) :
        /\ pairs[m][2] + 1 \in 1..Len(tokens)
        /\ tokens[pairs[m][2] + 1] = pairs[m][1]

\* C11: after an entity-aware call of tokenize every entity of a text that
\* is tokenized whole has one pair in the entity index map, named by its
\* replacement name with underscores for spaces, and every pair
\* <<name, idx>> of the map points at the token name in the token sequence
\* stored in tokenized_texts, whether punctuation was excluded or not.
C11_IndexMapPointsAtEntities ==
    (hist.kept # <<>> /\ hist.kept[1].use_entities) =>
        \A i \in DOMAIN hist.kept[2] :
            IF hist.kept[1].keep_sentences
            THEN \A j \in 1..Len(entity_idxs[i]) :
                    PairsPointAt(entity_idxs[i][j], tokenized_texts[i][j])
            ELSE /\ Len(entity_idxs[i]) = Len(args.entities[i])
                 /\ \A m \in 1..Len(entity_idxs[i]) :
                       entity_idxs[i][m][1] = ReplaceSpaces(args.entities[i][m][1])
                 /\ PairsPointAt(entity_idxs[i], tokenized_texts[i])

\* C16: a call of tokenize with entity-awareness on and a number of texts
\* other than the number of entity records ends at once with the error,
\* and tokenized_texts and entity_idxs are what they were before the call.
C16_MismatchFailsUntouched ==
    [][(/\ pc = "idle"
        /\ args.flags.use_entities
        /\ Len(args.texts) # Cardinality(DOMAIN args.entities))
       => /\ pc' = "raised"
          /\ tokenized_texts' = tokenized_texts
          /\ entity_idxs' = entity_idxs]_vars

\* a call with one text and no entity records has failed on a processor
\* that holds the tokens of an earlier call
C16_Witness ==
    /\ pc = "raised"
    /\ hist.last = "assert"
    /\ Len(args.texts) > Cardinality(DOMAIN args.entities)
    /\ tokenized_texts = TokenizedEarlier.tokenized_texts
    /\ entity_idxs = TokenizedEarlier.entity_idxs

\* every record <<name, start, end, ...>> of the list has
\* 0 <= start < end <= Len(text)
RecordsWithin(records, text) ==
    \A m \in 1..Len(records) :
        0 <= records[m][2] /\ records[m][2] < records[m][3] /\ records[m][3] <= Len(text)

\* the entity records of every normalized text, and of every text handed to
\* an entity-aware tokenize with its records, lie within the text
RecordedSpansWithin ==
    /\ \A i \in 0..(Len(normalized_texts) - 1) :
          RecordsWithin(entities_per_text[i], normalized_texts[i + 1])
    /\ (hist.kept # <<>> /\ hist.kept[1].use_entities) =>
          \A i \in DOMAIN hist.kept[2] :
             RecordsWithin(args.entities[i], args.texts[i + 1])

OccurrencesOf(text, name) ==
    {pos \in 0..(Len(text) - Len(name)) : SubSeq(text, pos + 1, pos + Len(name)) = name}

RECURSIVE InOrder(_)
\* the mentions of a set, by start offset
InOrder(S) ==
    IF S = {} THEN <<>>
    ELSE LET first == CHOOSE c \in S : \A d \in S : c.start <= d.start
         IN  <<first>> \o InOrder(S \ {first})

\* an abbreviation definition as Document.abbreviation_definitions gives it
Abbv(name, full, type) == [name |-> name, full |-> full, type |-> type]

\* the texts with their abbreviation definitions
AbbvDocs ==
    { [text |-> "glycol (EG) and EG.", abbvs |-> <<Abbv("EG", "glycol", "CM")>>],
      [text |-> "glycol (EG) and EG.", abbvs |-> <<Abbv("EG", "glycol", None)>>],
      [text |-> "EG is glycol (EG)", abbvs |-> <<Abbv("EG", "glycol", "CM")>>],
      [text |-> "mix EG EG now", abbvs |-> <<Abbv("EG", "glycol", "CM")>>],
      [text |-> "poly(EG) and EG", abbvs |-> <<Abbv("EG", "glycol", "CM")>>],
      [text |-> "no abbreviation", abbvs |-> <<>>],
      [text |-> "glycol (EG) and EG in furan (THF), THF",
       abbvs |-> <<Abbv("THF", "furan", "CM"), Abbv("EG", "glycol", "CM")>>] }

\* the calls of remove_abbreviations: a text, its definitions, and as doc.cems
\* any of the occurrences of its abbreviations
AbbvArgs ==
    UNION {
        LET all == UNION {{Cem(doc.abbvs[j].name, pos, pos + Len(doc.abbvs[j].name)) :
                              pos \in OccurrencesOf(doc.text, doc.abbvs[j].name)} :
                          j \in 1..Len(doc.abbvs)}
        IN  {[text |-> doc.text, abbvs |-> doc.abbvs, cems |-> InOrder(found)] :
                found \in SUBSET all} :
        doc \in AbbvDocs}

\* lines 494-508: the starts of the mentions of an abbreviation
CemStarts(cems, abbv_name) ==
    LET hits == SelectSeq(cems, LAMBDA cem : cem.text = abbv_name)
    IN  [j \in 1..Len(hits) |-> hits[j].start]

\* lines 494-508: the ends of the mentions of an abbreviation
CemEnds(cems, abbv_name) ==
    LET hits == SelectSeq(cems, LAMBDA cem : cem.text = abbv_name)
    IN  [j \in 1..Len(hits) |-> hits[j].end]

\* np.argmin: the first position of the least element
ArgMin(list) ==
    CHOOSE j \in 1..Len(list) :
        /\ \A m \in 1..Len(list) : list[j] <= list[m]
        /\ \A m \in 1..(j - 1) : list[m] > list[j]

\* lines 507-510: the least start, or 0 without a mention
LowIdx(cems, abbv_name) ==
    LET cem_starts == CemStarts(cems, abbv_name)
    IN  IF Len(cem_starts) > 0 THEN cem_starts[ArgMin(cem_starts)] ELSE 0

RECURSIVE AbbvDictFrom(_, _, _)
\* lines 490-511 from the j-th definition on: <<abbreviation, full form,
\* low_idx>> for the definitions that have an entity type
AbbvDictFrom(abbvs, cems, j) ==
    IF j > Len(abbvs) THEN <<>>
    ELSE (IF abbvs[j].type # None
          THEN <<<<abbvs[j].name, abbvs[j].full, LowIdx(cems, abbvs[j].name)>>>>
          ELSE <<>>)
         \o AbbvDictFrom(abbvs, cems, j + 1)

RECURSIVE SortByLowIdx(_)
\* line 512: sorted(..., key=low_idx), a stable sort
SortByLowIdx(items) ==
    IF items = <<>> THEN <<>>
    ELSE LET j == CHOOSE m \in 1..Len(items) :
                     /\ \A n \in 1..Len(items) : items[m][3] <= items[n][3]
                     /\ \A n \in 1..(m - 1) : items[n][3] > items[m][3]
         IN  <<items[j]>>
             \o SortByLowIdx(SubSeq(items, 1, j - 1) \o SubSeq(items, j + 1, Len(items)))

\* text[k] is defined
IndexInRange(text, k) == -Len(text) <= k /\ k < Len(text)

\* text[k]
CharAt(text, k) ==
    IF k < 0 THEN SubSeq(text, Len(text) + k + 1, Len(text) + k + 1)
    ELSE SubSeq(text, k + 1, k + 1)

\* [.,;\s] of the pattern of line 540
AfterWord == {".", ",", ";", " "}

\* the pattern of line 540 matches at offset pos: a space, the abbreviation,
\* and one of . , ; space or the end of the text; the length of the match,
\* or 0
MatchAt(text, pos, abbv) ==
    LET stop == pos + 1 + Len(abbv)
    IN  IF /\ stop <= Len(text)
           /\ CharAt(text, pos) = " "
           /\ SubSeq(text, pos + 2, stop) = abbv
        THEN IF stop = Len(text) THEN 1 + Len(abbv)
             ELSE IF CharAt(text, stop) \in AfterWord THEN 2 + Len(abbv)
             ELSE 0
        ELSE 0

RECURSIVE ReSubFrom(_, _, _, _)
\* re.sub of line 540 from offset pos on: the matches are found left to
\* right and do not overlap, each is replaced by a space, the full form and
\* the character matched after the abbreviation
ReSubFrom(text, pos, abbv, non_abbv) ==
    IF pos >= Len(text) THEN ""
    ELSE LET n == MatchAt(text, pos, abbv)
         IN  IF n = 0
             THEN CharAt(text, pos) \o ReSubFrom(text, pos + 1, abbv, non_abbv)
             ELSE " " \o non_abbv \o Slice(text, pos + 1 + Len(abbv), pos + n)
                  \o ReSubFrom(text, pos + n, abbv, non_abbv)

\* line 540
ReSub(text, abbv, non_abbv) == ReSubFrom(text, 0, abbv, non_abbv)

\* the arguments and locals of a call of remove_abbreviations
AbbvLocals(text, order) == [text |-> text, order |-> order, k |-> 1, index_change |-> 0]

\* a processor and the arguments remove_abbreviations is about to be called with
InitAbbv == Constructed /\ args \in AbbvArgs

\* lines 485-513: the definitions are collected and sorted; without
\* definitions the text is returned as it is
AbbvCall ==
    /\ pc = "idle"
    /\ IF Len(args.abbvs) > 0
       THEN /\ pc' = "abbv"
            /\ loc' = AbbvLocals(args.text,
                                 SortByLowIdx(AbbvDictFrom(args.abbvs, args.cems, 1)))
       ELSE /\ pc' = "done"
            /\ loc' = AbbvLocals(args.text, <<>>)
    /\ hist' = [hist EXCEPT !.last = "abbvs"]
    /\ UNCHANGED <<cleanVars, resolverVars, normalized_texts, entities_per_text,
                   timedout_entities, tokenVars, checkpoint, alarm, args>>

\* the abbreviation the loop of line 514 is at
AbbvAt == loc.order[loc.k]

\* lines 519-524, 532-534: the span of the earliest mention of the
\* abbreviation the loop is at
AbbvLowSpan ==
    LET cem_starts == CemStarts(args.cems, AbbvAt[1])
        cem_ends == CemEnds(args.cems, AbbvAt[1])
        low_idx == ArgMin(cem_starts)
    IN  <<cem_starts[low_idx], cem_ends[low_idx]>>

\* lines 526 and 535: both characters read exist
AbbvReadable ==
    /\ IndexInRange(loc.text, AbbvLowSpan[1] + loc.index_change - 1)
    /\ IndexInRange(loc.text, AbbvLowSpan[2] + loc.index_change)

\* lines 514-542: one abbreviation
AbbvStep ==
    /\ pc = "abbv"
    /\ loc.k <= Len(loc.order)
    /\ LET abbv == AbbvAt[1]
           non_abbv == AbbvAt[2]
       IN  IF AbbvAt[3] # 0
           THEN /\ AbbvReadable
                /\ LET start == AbbvLowSpan[1]
                       end == AbbvLowSpan[2]
                       enclosed == CharAt(loc.text, start + loc.index_change - 1)
                                       \o CharAt(loc.text, end + loc.index_change) = "()"
                       cut == IF enclosed
                              THEN SliceTo(loc.text, start - 2 + loc.index_change)
                                       \o SliceFrom(loc.text, end + 1 + loc.index_change)
                              ELSE loc.text
                       after == ReSub(cut, abbv, non_abbv)
                   IN  /\ loc' = [loc EXCEPT
                                     !.text = after,
                                     !.index_change = IF enclosed THEN @ + start - end - 3
                                                      ELSE @,
                                     !.k = @ + 1]
                       /\ hist' = [hist EXCEPT
                                      !.last = "rewritten",
                                      !.kept = Append(@,
                                          [abbv |-> abbv, non_abbv |-> non_abbv,
                                           processed |-> TRUE, span |-> <<start, end>>,
                                           drift |-> loc.index_change,
                                           before |-> loc.text, enclosed |-> enclosed,
                                           cut |-> cut, after |-> after])]
           ELSE /\ loc' = [loc EXCEPT !.k = @ + 1]
                /\ hist' = [hist EXCEPT
                               !.last = "skipped",
                               !.kept = Append(@,
                                   [abbv |-> abbv, non_abbv |-> non_abbv,
                                    processed |-> FALSE, span |-> <<>>,
                                    drift |-> loc.index_change,
                                    before |-> loc.text, enclosed |-> FALSE,
                                    cut |-> loc.text, after |-> loc.text])]
    /\ UNCHANGED <<cleanVars, resolverVars, normalized_texts, entities_per_text,
                   timedout_entities, tokenVars, checkpoint, pc, alarm, args>>

\* lines 526 and 535: text[...] is read past the end of the text and
\* IndexError leaves remove_abbreviations
AbbvIndexError ==
    /\ pc = "abbv"
    /\ loc.k <= Len(loc.order)
    /\ AbbvAt[3] # 0
    /\ ~AbbvReadable
    /\ pc' = "raised"
    /\ hist' = [hist EXCEPT !.last = "IndexError"]
    /\ UNCHANGED <<cleanVars, resolverVars, normalized_texts, entities_per_text,
                   timedout_entities, tokenVars, checkpoint, alarm, args, loc>>

\* line 543
AbbvReturn ==
    /\ pc = "abbv"
    /\ loc.k > Len(loc.order)
    /\ pc' = "done"
    /\ hist' = [hist EXCEPT !.last = "returned"]
    /\ UNCHANGED <<cleanVars, resolverVars, normalized_texts, entities_per_text,
                   timedout_entities, tokenVars, checkpoint, alarm, args, loc>>

NextAbbv ==
    \/ AbbvCall
    \/ AbbvStep
    \/ AbbvIndexError
    \/ AbbvReturn

SpecAbbv == InitAbbv /\ [][NextAbbv]_vars

(***************************************************************************)
(* Properties of remove_abbreviations, checked under SpecAbbv.             *)
(***************************************************************************)
\* the steps of the loop that found the text as it was passed in and rewrote
\* for an abbreviation whose earliest mention is its first occurrence
FirstRewrites ==
    {m \in 1..Len(hist.kept) :
        /\ hist.kept[m].processed
        /\ hist.kept[m].before = args.text
        /\ \A pos \in OccurrencesOf(args.text, hist.kept[m].abbv) :
              hist.kept[m].span[1] <= pos}

\* the abbreviation at text[start:end] is enclosed in parentheses and the
\* opening parenthesis follows a space
IsAside(text, start, end) ==
    /\ start >= 2
    /\ end < Len(text)
    /\ CharAt(text, start - 2) = " "
    /\ CharAt(text, start - 1) = "("
    /\ CharAt(text, end) = ")"

\* C12: the earliest occurrence of an abbreviation is deleted only when it
\* is enclosed in parentheses after a space, the deletion then removes the
\* space, the parentheses and the abbreviation and nothing else, and in
\* every other case the occurrence is still the abbreviation in the text
\* the step leaves; the call returns.
C12_DefiningOccurrence ==
    /\ pc # "raised"
    /\ \A m \in FirstRewrites :
          LET rec == hist.kept[m]
              start == rec.span[1]
              end == rec.span[2]
          IN  IF IsAside(rec.before, start, end)
              THEN rec.cut = SliceTo(rec.before, start - 2) \o SliceFrom(rec.before, end + 1)
              ELSE /\ rec.cut = rec.before
                   /\ Slice(rec.after, start, end) = rec.abbv

\* abbv stands at offset pos of text as a whole word: after a space and
\* before a space, one of . , ; or the end of the text
WholeWordAt(text, pos, abbv) ==
    /\ pos >= 1
    /\ pos + Len(abbv) <= Len(text)
    /\ CharAt(text, pos - 1) = " "
    /\ SubSeq(text, pos + 1, pos + Len(abbv)) = abbv
    /\ pos + Len(abbv) = Len(text) \/ CharAt(text, pos + Len(abbv)) \in AfterWord

RECURSIVE FullFormsFrom(_, _, _, _, _)
\* text from offset pos on with the full form for every whole-word
\* occurrence of abbv except the one at offset keep
FullFormsFrom(text, pos, abbv, non_abbv, keep) ==
    IF pos >= Len(text) THEN ""
    ELSE IF WholeWordAt(text, pos, abbv) /\ pos # keep
         THEN non_abbv \o FullFormsFrom(text, pos + Len(abbv), abbv, non_abbv, keep)
         ELSE CharAt(text, pos) \o FullFormsFrom(text, pos + 1, abbv, non_abbv, keep)

\* C13: the step of a processed abbreviation leaves the text with the full
\* form in the place of every whole-word occurrence other than the
\* defining one, occurrences next to each other included (whether the
\* defining occurrence itself is replaced is not judged here).
C13_EveryOccurrenceReplaced ==
    \A m \in FirstRewrites :
        LET rec == hist.kept[m]
        IN  \/ rec.after = FullFormsFrom(rec.cut, 0, rec.abbv, rec.non_abbv, -1)
            \/ /\ ~rec.enclosed
               /\ rec.after = FullFormsFrom(rec.cut, 0, rec.abbv, rec.non_abbv, rec.span[1])

\* C14: at the step of every processed abbreviation the drift applied to
\* the span of its defining occurrence is the total change the earlier
\* steps made to the length of the text.
C14_DriftIsLengthChange ==
    \A m \in 1..Len(hist.kept) :
        hist.kept[m].processed =>
            hist.kept[m].drift = Len(hist.kept[m].before) - Len(args.text)

\* C15: the step of an abbreviation without a matching entity mention
\* leaves the text as it is, and the step of an abbreviation with a
\* matching mention applies the rewrite, wherever its earliest mention
\* starts.
C15_RewriteIffMatched ==
    \A m \in 1..Len(hist.kept) :
        LET rec == hist.kept[m]
        IN  IF Len(CemStarts(args.cems, rec.abbv)) > 0
            THEN rec.processed
            ELSE rec.after = rec.before

(***************************************************************************)
(* The constructor, lines 32-140, for type 'abstract' and abstracts of one *)
(* line that hold no copyright sign, registered sign or HTML tag.          *)
(***************************************************************************)
\* line 39
min_len == 5

RECURSIVE Strip(_)
\* line.strip()
Strip(line) ==
    IF line = "" THEN ""
    ELSE IF SubSeq(line, 1, 1) = " " THEN Strip(SubSeq(line, 2, Len(line)))
    ELSE IF SubSeq(line, Len(line), Len(line)) = " "
         THEN Strip(SubSeq(line, 1, Len(line) - 1))
    ELSE line

RECURSIVE SplitFrom(_, _, _)
\* the words of text from position j on, word being the word read so far
SplitFrom(text, j, word) ==
    LET flush == IF word = "" THEN <<>> ELSE <<word>>
    IN  IF j > Len(text) THEN flush
        ELSE IF SubSeq(text, j, j) = " " THEN flush \o SplitFrom(text, j + 1, "")
        ELSE SplitFrom(text, j + 1, word \o SubSeq(text, j, j))

\* text.split()
Split(text) == SplitFrom(text, 1, "")

RECURSIVE Join(_)
\* ' '.join(words)
Join(words) ==
    IF words = <<>> THEN ""
    ELSE IF Len(words) = 1 THEN words[1]
    ELSE words[1] \o " " \o Join(Tail(words))

\* part in word
Contains(word, part) == OccurrencesOf(word, part) # {}

\* lines 155-159: the lines of the abstract that are not blank
Info(abstract) == IF Strip(abstract) = "" THEN <<>> ELSE <<Strip(abstract)>>

\* lines 248-277 for a text without the signs and tags they remove
remove_symbols(abstract) == abstract

\* line 220: info[0] of an empty list raises IndexError
CleanFails(abstract) == Len(Info(abstract)) = 0

\* lines 160-172 and 238-240, for an abstract with one line that is not blank
clean_abstract(abstract) ==
    LET info == Info(abstract)
        first == Lower(Split(info[1])[1])
    IN  remove_symbols(
            IF first = "abstract" \/ first = "summary" \/ Contains(first, "objective")
            THEN Join(Tail(Split(info[1])))
            ELSE info[1])

\* the abstracts of a corpus: absent, blank, short, with a heading, long
Abstracts == {None, "", "CO", "Abstract CO", "Abstract Use CO", "Use CO. Add EtOH"}

\* lines 32-45, 111-116: the constructor is about to clean the first text
InitNew ==
    /\ clean_texts = <<>>
    /\ dropped_idxs = <<>>
    /\ entity_to_cid = EmptyDict
    /\ entity_to_synonyms = EmptyDict
    /\ entity_counts = EmptyDict
    /\ normalized_texts = <<>>
    /\ entities_per_text = EmptyDict
    /\ timedout_entities = <<>>
    /\ tokenized_texts = EmptyDict
    /\ entity_idxs = EmptyDict
    /\ checkpoint = <<>>
    /\ pc = "clean"
    /\ alarm = FALSE
    /\ args \in [texts : SeqsUpTo(Abstracts, MaxTexts)]
    /\ loc = [i |-> 0]
    /\ hist = NoHistory

\* lines 116-127: one abstract; for None, line 120 reads dropped_idxs[i]
\* and drops the value
CleanNext ==
    /\ pc = "clean"
    /\ loc.i < Len(args.texts)
    /\ LET abstract == args.texts[loc.i + 1]
       IN  IF abstract = None
           THEN /\ loc.i < Len(dropped_idxs)
                /\ UNCHANGED cleanVars
           ELSE /\ ~CleanFails(abstract)
                /\ IF Len(clean_abstract(abstract)) < min_len
                   THEN /\ dropped_idxs' = Append(dropped_idxs, loc.i)
                        /\ UNCHANGED clean_texts
                   ELSE /\ clean_texts' = Append(clean_texts, clean_abstract(abstract))
                        /\ UNCHANGED dropped_idxs
    /\ loc' = [loc EXCEPT !.i = @ + 1]
    /\ UNCHANGED <<resolverVars, normalized_texts, entities_per_text,
                   timedout_entities, tokenVars, checkpoint, pc, alarm, args, hist>>

\* line 120: dropped_idxs[i] past the end of the list, or line 220: info[0]
\* of an abstract without a line that is not blank; IndexError leaves the
\* constructor
CleanRaises ==
    /\ pc = "clean"
    /\ loc.i < Len(args.texts)
    /\ LET abstract == args.texts[loc.i + 1]
       IN  IF abstract = None THEN ~(loc.i < Len(dropped_idxs)) ELSE CleanFails(abstract)
    /\ pc' = "raised"
    /\ UNCHANGED <<cleanVars, resolverVars, normalized_texts, entities_per_text,
                   timedout_entities, tokenVars, checkpoint, alarm, args, loc, hist>>

\* lines 128-140: the loop is over and the tables are created empty
ConstructReturn ==
    /\ pc = "clean"
    /\ loc.i = Len(args.texts)
    /\ pc' = "idle"
    /\ UNCHANGED <<cleanVars, resolverVars, normalized_texts, entities_per_text,
                   timedout_entities, tokenVars, checkpoint, alarm, args, loc, hist>>

NextNew ==
    \/ CleanNext
    \/ CleanRaises
    \/ ConstructReturn

SpecNew == InitNew /\ [][NextNew]_vars

\* the indices of the texts that are None or too short once cleaned
ToDrop ==
    {j \in 0..(Len(args.texts) - 1) :
        \/ args.texts[j + 1] = None
        \/ CleanFails(args.texts[j + 1])
        \/ Len(clean_abstract(args.texts[j + 1])) < min_len}

\* C17: the constructor never fails, and when it is done dropped_idxs
\* holds the index of every text that is None or too short once cleaned,
\* clean_texts the other texts, cleaned, in the order of the corpus, and
\* the two lists together have one entry for every text.
C17_ConstructorNeverFails ==
    /\ pc # "raised"
    /\ pc = "idle" =>
          /\ Range(dropped_idxs) = ToDrop
          /\ Len(clean_texts) + Len(dropped_idxs) = Len(args.texts)
          /\ clean_texts = [m \in 1..Len(clean_texts) |->
                               clean_abstract(args.texts[
                                   CHOOSE j \in 1..Len(args.texts) :
                                       /\ j - 1 \notin ToDrop
                                       /\ Cardinality({n \in 1..j : n - 1 \notin ToDrop}) = m])]

(***************************************************************************)
(* extract_entity_tokens, lines 677-707, called on its own with a text and *)
(* entity spans that are disjoint and sorted by start.                     *)
(***************************************************************************)
\* the spans <<start, end>> with 0 <= start < end <= Len(text)
SpansOf(text) == {sp \in (0..Len(text)) \X (0..Len(text)) : sp[1] < sp[2]}

\* the lists of at most MaxSpans spans of text that are disjoint and sorted
SpanLists(text) ==
    {q \in SeqsUpTo(SpansOf(text), MaxSpans) :
        \A m \in 1..(Len(q) - 1) : q[m][2] <= q[m + 1][1]}

ExtractTexts == {"a CO b", "CO"}

\* the arguments extract_entity_tokens is about to be called with
InitExtract ==
    /\ Constructed
    /\ \E text \in ExtractTexts :
          args \in [text : {text}, entity_spans : SpanLists(text)]

\* lines 692-707
ExtractCall ==
    /\ pc = "idle"
    /\ pc' = "done"
    /\ loc' = [token_list |-> extract_entity_tokens(args.text, args.entity_spans)]
    /\ UNCHANGED <<cleanVars, resolverVars, normalized_texts, entities_per_text,
                   timedout_entities, tokenVars, checkpoint, alarm, args, hist>>

NextExtract == ExtractCall

SpecExtract == InitExtract /\ [][NextExtract]_vars

RECURSIVE Concatenated(_)
\* the texts of the runs, one after the other
Concatenated(runs) ==
    IF runs = <<>> THEN "" ELSE Head(runs).text \o Concatenated(Tail(runs))

\* C20: for spans that are disjoint and sorted by start the runs, one
\* after the other, are the text; the entity runs are, in order, the
\* characters text[start:end] of the spans, one run for each span; and
\* without spans the text is the only run.
C20_RunsPartitionText ==
    pc = "done" =>
        LET runs == loc.token_list
            entities == SelectSeq(runs, LAMBDA run : run.entity)
        IN  /\ Concatenated(runs) = args.text
            /\ Len(entities) = Len(args.entity_spans)
            /\ \A m \in 1..Len(entities) :
                  entities[m].text
                      = SubSeq(args.text, args.entity_spans[m][1] + 1, args.entity_spans[m][2])
            /\ args.entity_spans = <<>> => runs = <<Plain(args.text)>>

\* a text has been cut at two spans with text before, between and after
C20_Witness ==
    /\ pc = "done"
    /\ Len(args.entity_spans) = 2
    /\ args.entity_spans[1][1] > 0
    /\ args.entity_spans[1][2] < args.entity_spans[2][1]
    /\ args.entity_spans[2][2] < Len(args.text)
    /\ Len(loc.token_list) = 5

(***************************************************************************)
(* Records kept per normalized text, checked under Spec                    *)
(***************************************************************************)

\* lines 318-322: the names of the mentions of a document, as looked up
DocNames(doc) == {MentionName(doc.cems[j].text) : j \in DOMAIN doc.cems}

\* lines 349-365 and 395-411: the looked-up names of a document's mentions in
\* splice order
DocOriginals(doc) ==
    LET sorted == SortByStart([j \in 1..Len(doc.cems) |->
                                  <<MentionName(doc.cems[j].text), doc.cems[j].start,
                                    doc.cems[j].end>>])
    IN  [j \in DOMAIN sorted |-> sorted[j][1]]

\* lines 396-416: the records stored under key i are those of the text stored
\* at position i: same mentions in splice order, each replaced by the cached
\* name, and (without bold markers) the spans and text of the rewrite
RecordsOf(i) ==
    \E doc \in Corpus :
        /\ DocNames(doc) \subseteq DOMAIN entity_to_cid
        /\ [j \in DOMAIN entities_per_text[i] |-> entities_per_text[i][j][4]]
               = DocOriginals(doc)
        /\ i \in hist.plain =>
               NormalizedDoc(doc, entity_to_cid)
                   = [text |-> normalized_texts[i + 1],
                      records |-> entities_per_text[i]]

\* C21: starting with no normalized texts, whenever no call is in progress
\* the keys of entities_per_text are exactly 0 .. len(normalized_texts)-1,
\* entities_per_text[i] holds the entity records of normalized_texts[i], and
\* so the two counts compared by tokenize with default arguments are equal.
C21_RecordsPerText ==
    pc = "idle" =>
        /\ DOMAIN entities_per_text = 0..(Len(normalized_texts) - 1)
        /\ \A i \in DOMAIN entities_per_text : RecordsOf(i)
        /\ Len(normalized_texts) = Cardinality(DOMAIN entities_per_text)

C21_Witness ==
    /\ pc = "idle"
    /\ Len(normalized_texts) = 2
    /\ hist.plain = {1}
    /\ entities_per_text[1] # <<>>

====
